---- MODULE Spec2Model ----
(***************************************************************************)
(* Generic CRUD repository over a MySQL table (AbstractRepository,         *)
(* UserRepository, GlobalExceptionFilter).                                 *)
(*                                                                         *)
(* A JavaScript string is a Text: a finite sequence of letters, each       *)
(* letter an atomic symbol written as a TLA+ string.  An optional value    *)
(* (undefined or a value) is None or Some(v).                              *)
(***************************************************************************)
EXTENDS Integers, Sequences, FiniteSets, TLC

\* Number of AUTO_INCREMENT values the table hands out.
MaxId == 2
\* Largest page and limit a list request asks for.
MaxPage == 2
MaxLimit == 2

VARIABLES
    policy,         \* the concrete repository: "abstract" defaults or "user"
    table,          \* rows of the entity's table
    nextId,         \* the table's AUTO_INCREMENT counter
    pendingUpdate,  \* update() suspended between its UPDATE and its read-back
    pendingList,    \* findAll() suspended between its SELECT and its COUNT
    response        \* the completed call whose response is being delivered

vars == <<policy, table, nextId, pendingUpdate, pendingList, response>>

None == <<>>
Some(v) == <<v>>

----------------------------------------------------------------------------
(* Text *)

Concat3(a, b, c) == a \o b \o c

\* Decimal rendering of a small integer, as template literals render numbers.
DigitStr(n) ==
    CASE n = 0 -> "0" [] n = 1 -> "1" [] n = 2 -> "2" [] n = 3 -> "3"
      [] n = 4 -> "4" [] n = 5 -> "5" [] n = 6 -> "6" [] n = 7 -> "7"
      [] n = 8 -> "8" [] n = 9 -> "9"

RECURSIVE NatStr(_)
NatStr(n) == IF n < 10 THEN <<DigitStr(n)>> ELSE NatStr(n \div 10) \o <<DigitStr(n % 10)>>

NumStr(n) == IF n < 0 THEN <<"-">> \o NatStr(0 - n) ELSE NatStr(n)

\* TRUE iff pre occurs in s starting at position i.
OccursAt(s, pre, i) ==
    /\ i >= 1
    /\ i + Len(pre) - 1 <= Len(s)
    /\ \A k \in 1..Len(pre) : s[i + k - 1] = pre[k]

IsSuffix(suf, s) ==
    /\ Len(suf) <= Len(s)
    /\ OccursAt(s, suf, Len(s) - Len(suf) + 1)

----------------------------------------------------------------------------
(* The users table and what the engine enforces on it *)

Names == { <<"a">>, <<"b">> }
Emails == { <<"x">>, <<"y">>, <<"for key ", "'", "z">> }

\* The table's default collation compares text case-insensitively.
LowerLetter(c) ==
    CASE c = "A" -> "a" [] c = "B" -> "b" [] c = "X" -> "x" [] c = "Y" -> "y"
      [] c = "Alice" -> "alice" [] c = "Bob" -> "bob"
      [] OTHER -> c

Lower(s) == [i \in 1..Len(s) |-> LowerLetter(s[i])]

CollationEq(a, b) == Lower(a) = Lower(b)

\* The name MySQL gives the unique index on users.email in its messages.
UniqueKeyName == <<"users.", "email">>

\* "Duplicate entry '<value>' for key '<key>'"
DuplicateEntryMessage(value) ==
    <<"Duplicate entry ", "'">> \o value \o <<"'", " ", "for key ", "'">>
        \o UniqueKeyName \o <<"'">>

\* Any other failure of a statement (lost connection, lock timeout, ...).
FaultMessage == <<"Lock wait timeout exceeded; try restarting transaction">>

QueryFailedError(code, message) ==
    [type |-> "QueryFailedError", code |-> code, message |-> message]

DupEntryError(value) == QueryFailedError("ER_DUP_ENTRY", DuplicateEntryMessage(value))
FaultError == QueryFailedError("ER_LOCK_WAIT_TIMEOUT", FaultMessage)

\* "Duplicate entry '<id>' for key 'users.PRIMARY'"
DupPrimaryError(n) ==
    QueryFailedError("ER_DUP_ENTRY",
        <<"Duplicate entry ", "'">> \o NumStr(n)
            \o <<"'", " ", "for key ", "'", "users.", "PRIMARY", "'">>)

RowsWithId(t, n) == {r \in t : r.id = n}

\* Rows other than `self` whose unique column collates equal to `email`.
EmailTaken(t, email, self) ==
    \E r \in t : r.id # self /\ CollationEq(r.email, email)

NewRow(id, fields) ==
    [id |-> id, name |-> fields.name, email |-> fields.email,
     isActive |-> TRUE, createdAt |-> id]

\* UPDATE ... WHERE id = n, as the engine applies it to one row.
ApplyPartial(r, partial) ==
    [r EXCEPT !.name  = IF partial.name  # None THEN partial.name[1]  ELSE @,
              !.email = IF partial.email # None THEN partial.email[1] ELSE @,
              !.id    = IF partial.id    # None THEN partial.id[1]    ELSE @]

----------------------------------------------------------------------------
(* Exceptions and their messages *)

HttpException(type, message) == [type |-> type, code |-> "", message |-> message]

BadRequestException(message) == HttpException("BadRequestException", message)
NotFoundException(message) == HttpException("NotFoundException", message)
ConflictException(message) == HttpException("ConflictException", message)
InternalServerErrorException(message) ==
    HttpException("InternalServerErrorException", message)

IsHttpException(e) ==
    e.type \in {"BadRequestException", "NotFoundException", "ConflictException",
                "InternalServerErrorException"}

BAD_REQUEST == 400
NOT_FOUND == 404
CONFLICT == 409
INTERNAL_SERVER_ERROR == 500

GetStatus(e) ==
    CASE e.type = "BadRequestException" -> BAD_REQUEST
      [] e.type = "NotFoundException" -> NOT_FOUND
      [] e.type = "ConflictException" -> CONFLICT
      [] OTHER -> INTERNAL_SERVER_ERROR

InvalidIdFormat == <<"Invalid id format">>
InvalidFiltersJSON == <<"Invalid filters JSON">>
EntityNotFound(n) == Concat3(<<"Entity with id ">>, NumStr(n), <<" not found">>)
DuplicateValueFor(field) == <<"Duplicate value for unique field(s): ">> \o field
Unknown == <<"unknown">>

\* The letters '.' of a regular expression matches: all but line terminators.
Dot(c) == c \notin {"\n", "\r"}

ForKey == <<"for key ", "'">>

\* Ends j of a match of /for key '(.+)'/ that starts at i: the closing quote.
ForKeyEnds(message, i) ==
    {j \in (i + Len(ForKey) + 1)..Len(message) :
        /\ OccursAt(message, ForKey, i)
        /\ message[j] = "'"
        /\ \A k \in (i + Len(ForKey))..(j - 1) : Dot(message[k])}

ForKeyStarts(message) == {i \in 1..Len(message) : ForKeyEnds(message, i) # {}}

Min(S) == CHOOSE x \in S : \A y \in S : x <= y
Max(S) == CHOOSE x \in S : \A y \in S : x >= y

\* The same match with a lazy group, /for key '(.+?)'/.
extractDuplicateField_Lazy(message) ==
    IF ForKeyStarts(message) = {} THEN Unknown
    ELSE LET i == Min(ForKeyStarts(message))
             j == Min(ForKeyEnds(message, i))
         IN  SubSeq(message, i + Len(ForKey), j - 1)

\* message.match(/for key '(.+)'/): leftmost start, greedy group.
extractDuplicateField(message) ==
    IF ForKeyStarts(message) = {} THEN Unknown
    ELSE LET i == Min(ForKeyStarts(message))
             j == Max(ForKeyEnds(message, i))
         IN  SubSeq(message, i + Len(ForKey), j - 1)

\* String.replace(pattern, ''): removes the first occurrence of pattern.
RemoveFirst(s, pattern) ==
    LET at == {i \in 1..Len(s) : OccursAt(s, pattern, i)}
    IN  IF at = {} THEN s
        ELSE SubSeq(s, 1, Min(at) - 1) \o SubSeq(s, Min(at) + Len(pattern), Len(s))

\* The filter's own helper: /for key '(.+?)'/ (lazy group), 'users.' removed.
filterExtractDuplicateField(msg) ==
    IF ForKeyStarts(msg) = {} THEN Unknown
    ELSE LET i == Min(ForKeyStarts(msg))
             j == Min(ForKeyEnds(msg, i))
         IN  RemoveFirst(SubSeq(msg, i + Len(ForKey), j - 1), <<"users.">>)

\* GlobalExceptionFilter.catch: the status code and message sent to the client.
Catch(exception) ==
    IF IsHttpException(exception)
    THEN [statusCode |-> GetStatus(exception), message |-> exception.message]
    ELSE IF exception.type = "QueryFailedError"
    THEN IF exception.code = "ER_DUP_ENTRY"
         THEN [statusCode |-> CONFLICT,
               message |-> DuplicateValueFor(filterExtractDuplicateField(exception.message))]
         ELSE [statusCode |-> BAD_REQUEST,
               message |-> <<"MySQL Error: ">> \o exception.message]
    ELSE [statusCode |-> INTERNAL_SERVER_ERROR, message |-> <<"Internal server error">>]

\* The catch blocks of create() and update().
WriteCatch(error) ==
    IF error.code = "ER_DUP_ENTRY"
    THEN ConflictException(DuplicateValueFor(extractDuplicateField(error.message)))
    ELSE InternalServerErrorException(error.message)

\* How a repository call ends: it throws, or returns an entity (or nothing).
Throw(e) == [exception |-> Some(e), entity |-> None]
Return(entity) == [exception |-> None, entity |-> entity]

----------------------------------------------------------------------------
(* Identifiers a caller passes *)

NaN == [nan |-> TRUE, n |-> 0]
Num(k) == [nan |-> FALSE, n |-> k]
\* The id check left out.
isNaN_Never(id) == FALSE

isNaN(id) == id.nan

IdArgs == {NaN} \cup {Num(k) : k \in -1..MaxId}

CreateFields == [name : Names, email : Emails]

\* Partial<T> bodies of update(): one column each.
Partials ==
    {[name |-> Some(n), email |-> None, id |-> None] : n \in Names}
        \cup {[name |-> None, email |-> Some(e), id |-> None] : e \in Emails}

----------------------------------------------------------------------------
(* Statements as the engine executes them: each is atomic.  `fault` is the  *)
(* engine failing the statement for a reason of its own.                    *)

\* INSERT INTO users (name, email) VALUES (...)
\* INSERT into a table whose email column has no unique index.
Insert_WithoutUniqueIndex(t, id, fields, fault) ==
    IF fault THEN [error |-> Some(FaultError), table |-> t, row |-> None]
    ELSE [error |-> None, table |-> t \cup {NewRow(id, fields)},
          row |-> Some(NewRow(id, fields))]

\* INSERT INTO users ...
Insert(t, id, fields, fault) ==
    IF fault THEN [error |-> Some(FaultError), table |-> t, row |-> None]
    ELSE IF EmailTaken(t, fields.email, id)
    THEN [error |-> Some(DupEntryError(fields.email)), table |-> t, row |-> None]
    ELSE [error |-> None, table |-> t \cup {NewRow(id, fields)},
          row |-> Some(NewRow(id, fields))]

\* An UPDATE that inserts the row when no row has the id.
Update_Upsert(t, n, partial, fault) ==
    IF fault THEN [error |-> Some(FaultError), table |-> t, affected |-> 0]
    ELSE IF RowsWithId(t, n) = {}
    THEN [error |-> None,
          table |-> t \cup {ApplyPartial(NewRow(n, [name |-> <<>>, email |-> <<>>]), partial)},
          affected |-> 1]
    ELSE [error |-> None,
          table |-> {IF r.id = n THEN ApplyPartial(r, partial) ELSE r : r \in t},
          affected |-> 1]

\* UPDATE users SET ... WHERE id = n
Update(t, n, partial, fault) ==
    IF fault THEN [error |-> Some(FaultError), table |-> t, affected |-> 0]
    ELSE IF RowsWithId(t, n) # {} /\ partial.id # None /\ partial.id[1] # n
            /\ RowsWithId(t, partial.id[1]) # {}
    THEN [error |-> Some(DupPrimaryError(partial.id[1])), table |-> t, affected |-> 0]
    ELSE IF RowsWithId(t, n) # {} /\ partial.email # None
            /\ EmailTaken(t, partial.email[1], n)
    THEN [error |-> Some(DupEntryError(partial.email[1])), table |-> t, affected |-> 0]
    ELSE [error |-> None,
          table |-> {IF r.id = n THEN ApplyPartial(r, partial) ELSE r : r \in t},
          affected |-> Cardinality(RowsWithId(t, n))]

\* A DELETE without its WHERE clause.
Delete_AllRows(t, n, fault) ==
    IF fault THEN [error |-> Some(FaultError), table |-> t, affected |-> 0]
    ELSE [error |-> None, table |-> {}, affected |-> Cardinality(t)]

\* DELETE FROM users WHERE id = n
Delete(t, n, fault) ==
    IF fault THEN [error |-> Some(FaultError), table |-> t, affected |-> 0]
    ELSE [error |-> None, table |-> t \ RowsWithId(t, n),
          affected |-> Cardinality(RowsWithId(t, n))]

\* SELECT ... WHERE id = n LIMIT 1
SelectById(t, n, fault) ==
    IF fault THEN [error |-> Some(FaultError), row |-> None]
    ELSE IF RowsWithId(t, n) = {} THEN [error |-> None, row |-> None]
    ELSE [error |-> None, row |-> Some(CHOOSE r \in RowsWithId(t, n) : TRUE)]

----------------------------------------------------------------------------
(* AbstractRepository: point operations *)

\* findOne() handing back whatever the SELECT found, null included.
findOne_NullAsSuccess(t, id, fault) ==
    IF isNaN(id) THEN Throw(BadRequestException(InvalidIdFormat))
    ELSE LET found == SelectById(t, id.n, fault)
         IN  IF found.error # None THEN Throw(found.error[1]) ELSE Return(found.row)

findOne(t, id, fault) ==
    IF isNaN(id) THEN Throw(BadRequestException(InvalidIdFormat))
    ELSE LET found == SelectById(t, id.n, fault)
         IN  IF found.error # None THEN Throw(found.error[1])
             ELSE IF found.row = None
             THEN Throw(NotFoundException(EntityNotFound(id.n)))
             ELSE Return(found.row)

\* create() returning without the saved entity.
create_WithoutEntity(saved) ==
    IF saved.error # None THEN Throw(WriteCatch(saved.error[1])) ELSE Return(None)

create(saved) ==
    IF saved.error # None THEN Throw(WriteCatch(saved.error[1]))
    ELSE Return(saved.row)

\* update() once its findOne has returned or thrown inside the try block.
updateReadBack(read) ==
    IF read.exception # None THEN Throw(WriteCatch(read.exception[1]))
    ELSE read

\* delete() that does not look at result.affected.
delete_IgnoreAffected(id, result) ==
    IF result.error # None THEN Throw(result.error[1]) ELSE Return(None)

delete(id, result) ==
    IF result.error # None THEN Throw(result.error[1])
    ELSE IF result.affected = 0
    THEN Throw(NotFoundException(EntityNotFound(id.n)))
    ELSE Return(None)

\* What the caller of a point operation gets, through the exception filter.
PointResponse(op, id, fields, partial, outcome, before, fault) ==
    [op |-> op, id |-> id, fields |-> fields, partial |-> partial,
     exception |-> outcome.exception, entity |-> outcome.entity,
     http |-> IF outcome.exception # None THEN Some(Catch(outcome.exception[1]))
              ELSE None,
     before |-> before, fault |-> fault]

\* A statement can fail only if it is issued.
Faults(id) == IF isNaN(id) THEN {FALSE} ELSE BOOLEAN

----------------------------------------------------------------------------
(* JSON.parse, for the payloads a filters string carries: an object of      *)
(* scalar members, or a scalar.  Strings carry no escape sequences.         *)

Digits == {"0", "1", "2", "3", "4", "5", "6", "7", "8", "9"}
Whitespace == {" ", "\t", "\n", "\r"}

JsonValue(kind, text, members) == [kind |-> kind, text |-> text, members |-> members]
SyntaxError(i) == [ok |-> FALSE, value |-> JsonValue("error", <<>>, <<>>), next |-> i]
Parsed(v, i) == [ok |-> TRUE, value |-> v, next |-> i]

RECURSIVE SkipWs(_, _)
SkipWs(s, i) == IF i <= Len(s) /\ s[i] \in Whitespace THEN SkipWs(s, i + 1) ELSE i

\* First position >= i holding a closing quote, or 0.
ClosingQuote(s, i) ==
    LET q == {j \in i..Len(s) : s[j] = "\""} IN IF q = {} THEN 0 ELSE Min(q)

\* End of the run of digits starting at i.
RECURSIVE DigitsEnd(_, _)
DigitsEnd(s, i) == IF i <= Len(s) /\ s[i] \in Digits THEN DigitsEnd(s, i + 1) ELSE i

ParseScalar(s, i) ==
    IF i > Len(s) THEN SyntaxError(i)
    ELSE IF s[i] = "\""
    THEN IF ClosingQuote(s, i + 1) = 0 THEN SyntaxError(i)
         ELSE Parsed(JsonValue("string", SubSeq(s, i + 1, ClosingQuote(s, i + 1) - 1), <<>>),
                     ClosingQuote(s, i + 1) + 1)
    ELSE IF s[i] \in Digits
    THEN Parsed(JsonValue("number", SubSeq(s, i, DigitsEnd(s, i) - 1), <<>>), DigitsEnd(s, i))
    ELSE IF s[i] = "null" THEN Parsed(JsonValue("null", <<>>, <<>>), i + 1)
    ELSE IF s[i] \in {"true", "false"} THEN Parsed(JsonValue("boolean", <<s[i]>>, <<>>), i + 1)
    ELSE SyntaxError(i)

\* Members of an object from position i (after '{' or ','), up to its '}'.
RECURSIVE ParseMembers(_, _, _)
ParseMembers(s, i, acc) ==
    LET key == ParseScalar(s, SkipWs(s, i))
        colon == SkipWs(s, key.next)
        val == ParseScalar(s, SkipWs(s, colon + 1))
        sep == SkipWs(s, val.next)
        member == [key |-> key.value.text, value |-> val.value]
    IN  IF ~key.ok \/ key.value.kind # "string" THEN SyntaxError(i)
        ELSE IF colon > Len(s) \/ s[colon] # ":" THEN SyntaxError(colon)
        ELSE IF ~val.ok THEN SyntaxError(val.next)
        ELSE IF sep > Len(s) THEN SyntaxError(sep)
        ELSE IF s[sep] = "}" THEN Parsed(JsonValue("object", <<>>, Append(acc, member)), sep + 1)
        ELSE IF s[sep] = "," THEN ParseMembers(s, sep + 1, Append(acc, member))
        ELSE SyntaxError(sep)

ParseValue(s, i) ==
    IF i > Len(s) THEN SyntaxError(i)
    ELSE IF s[i] = "{"
    THEN IF SkipWs(s, i + 1) <= Len(s) /\ s[SkipWs(s, i + 1)] = "}"
         THEN Parsed(JsonValue("object", <<>>, <<>>), SkipWs(s, i + 1) + 1)
         ELSE ParseMembers(s, i + 1, <<>>)
    ELSE ParseScalar(s, i)

\* JSON.parse(text): ok is FALSE where it throws a SyntaxError.
JSONparse(text) ==
    LET v == ParseValue(text, SkipWs(text, 1))
    IN  IF v.ok /\ SkipWs(text, v.next) = Len(text) + 1 THEN v ELSE SyntaxError(v.next)

\* Object.keys(value): own enumerable keys, each once, in insertion order.
\* It throws on null; a number or boolean has none; a string has its indices.
ObjectKeysThrows(v) == v.kind = "null"

RECURSIVE Dedupe(_, _)
Dedupe(keys, seen) ==
    IF keys = <<>> THEN <<>>
    ELSE IF Head(keys) \in seen THEN Dedupe(Tail(keys), seen)
    ELSE <<Head(keys)>> \o Dedupe(Tail(keys), seen \cup {Head(keys)})

ObjectKeys(v) ==
    IF v.kind = "object" THEN Dedupe([i \in 1..Len(v.members) |-> v.members[i].key], {})
    ELSE IF v.kind = "string" THEN [i \in 1..Len(v.text) |-> NumStr(i - 1)]
    ELSE <<>>

\* parsed[key]: the last member of that name.
Lookup(v, key) ==
    IF v.kind = "object"
    THEN v.members[Max({i \in 1..Len(v.members) : v.members[i].key = key})].value
    ELSE JsonValue("string", <<v.text[Min({i \in 1..Len(v.text) : NumStr(i - 1) = key})]>>, <<>>)

----------------------------------------------------------------------------
(* Column Policy and the query findAll() builds *)

Policies == {"abstract", "user"}

\* The user policy's searchable columns given to every repository.
getSearchableColumns_OfUser(p) == << <<"name">>, <<"email">> >>

getSearchableColumns(p) ==
    IF p = "user" THEN << <<"name">>, <<"email">> >> ELSE <<>>

getSortableColumns(p) ==
    IF p = "user" THEN << <<"id">>, <<"name">>, <<"email">>, <<"createdAt">> >>
    ELSE << <<"id">> >>

Includes(list, x) == \E i \in 1..Len(list) : list[i] = x

\* JavaScript truthiness of an optional string: present and not empty.
Truthy(opt) == opt # None /\ opt[1] # <<>>

UpperLetter(c) ==
    CASE c = "a" -> "A" [] c = "s" -> "S" [] c = "c" -> "C" [] c = "d" -> "D"
      [] c = "e" -> "E" [] OTHER -> c

toUpperCase(s) == [i \in 1..Len(s) |-> UpperLetter(s[i])]

\* sortBy used without the includes() check.
SafeSort_Unchecked(sortBy, sortable) ==
    IF Truthy(sortBy) THEN sortBy[1] ELSE <<"id">>

SafeSort(sortBy, sortable) ==
    IF Truthy(sortBy) /\ Includes(sortable, sortBy[1]) THEN sortBy[1] ELSE <<"id">>

\* The order parameter left unread.
Direction_AlwaysAsc(order) == "ASC"

Direction(order) ==
    IF Truthy(order) /\ toUpperCase(order[1]) = <<"D", "E", "S", "C">> THEN "DESC"
    ELSE "ASC"

\* The offset taken one page too far.
Skip_PageTimesLimit(page, limit) == page * limit

Skip(page, limit) == (page - 1) * limit

\* Only the first key of the parsed filters turned into a predicate.
FilterPredicates_FirstKeyOnly(parsed) ==
    [i \in 1..Min({1, Len(ObjectKeys(parsed))}) |->
        [column |-> ObjectKeys(parsed)[i],
         value |-> Lookup(parsed, ObjectKeys(parsed)[i])]]

\* One andWhere() per key of the parsed filters.
FilterPredicates(parsed) ==
    [i \in 1..Len(ObjectKeys(parsed)) |->
        [column |-> ObjectKeys(parsed)[i],
         value |-> Lookup(parsed, ObjectKeys(parsed)[i])]]

\* The Brackets group: the searchable columns, each LIKE '%search%'.
SearchGroup(p, search) ==
    IF Truthy(search) /\ Len(getSearchableColumns(p)) > 0
    THEN Some([columns |-> getSearchableColumns(p),
               pattern |-> Concat3(<<"%">>, search[1], <<"%">>)])
    ELSE None

QueryPlan(p, req, predicates) ==
    [filters |-> predicates,
     search |-> SearchGroup(p, req.search),
     orderBy |-> [column |-> SafeSort(req.sortBy, getSortableColumns(p)),
                  direction |-> Direction(req.order)],
     skip |-> Skip(req.page, req.limit),
     take |-> req.limit]

\* The text fragments handed to the query builder, in the order of the calls:
\* `e.${key} = :filter_${key}`, `e.${col} LIKE :search_${idx}`, `e.${safeSort}`.
Clauses(plan) ==
    [i \in 1..Len(plan.filters) |->
        <<"e.">> \o plan.filters[i].column \o <<" = :", "filter_">> \o plan.filters[i].column]
    \o (IF plan.search = None THEN <<>>
        ELSE [i \in 1..Len(plan.search[1].columns) |->
                <<"e.">> \o plan.search[1].columns[i] \o <<" LIKE :", "search_">>
                    \o NatStr(i - 1)])
    \o << <<"e.">> \o plan.orderBy.column, <<plan.orderBy.direction>> >>

RECURSIVE JoinTexts(_)
JoinTexts(texts) == IF texts = <<>> THEN <<>> ELSE Head(texts) \o JoinTexts(Tail(texts))

QueryText(plan) == JoinTexts(Clauses(plan))

\* findAll() up to getManyAndCount(): the inner try/catch around JSON.parse.
BuildQuery(p, req) ==
    IF ~Truthy(req.filters)
    THEN [exception |-> None, plan |-> Some(QueryPlan(p, req, <<>>))]
    ELSE LET parsed == JSONparse(req.filters[1])
         IN  IF ~parsed.ok \/ ObjectKeysThrows(parsed.value)
             THEN [exception |-> Some(BadRequestException(InvalidFiltersJSON)),
                   plan |-> None]
             ELSE [exception |-> None,
                   plan |-> Some(QueryPlan(p, req, FilterPredicates(parsed.value)))]

\* The outer catch of findAll().
findAllCatch(error) == InternalServerErrorException(error.message)

----------------------------------------------------------------------------
(* SELECT and COUNT as the engine evaluates them *)

Columns == { <<"id">>, <<"name">>, <<"email">>, <<"isActive">>, <<"createdAt">> }
TextColumns == { <<"name">>, <<"email">> }

UnknownColumnError(column) ==
    QueryFailedError("ER_BAD_FIELD_ERROR",
        Concat3(<<"Unknown column 'e.">>, column, <<"' in 'where clause'">>))

DigitVal(c) ==
    CASE c = "0" -> 0 [] c = "1" -> 1 [] c = "2" -> 2 [] c = "3" -> 3 [] c = "4" -> 4
      [] c = "5" -> 5 [] c = "6" -> 6 [] c = "7" -> 7 [] c = "8" -> 8 [] c = "9" -> 9

\* A string used as a number: its leading digits, 0 when it has none.
RECURSIVE TextToNum(_, _)
TextToNum(s, acc) ==
    IF s = <<>> \/ Head(s) \notin Digits THEN acc
    ELSE TextToNum(Tail(s), 10 * acc + DigitVal(Head(s)))

TextCell(r, column) == IF column = <<"name">> THEN r.name ELSE r.email

NumCell(r, column) ==
    CASE column = <<"id">> -> r.id
      [] column = <<"createdAt">> -> r.createdAt
      [] column = <<"isActive">> -> IF r.isActive THEN 1 ELSE 0
      [] OTHER -> TextToNum(TextCell(r, column), 0)

NumOfValue(v) ==
    IF v.kind = "boolean" THEN (IF v.text = <<"true">> THEN 1 ELSE 0)
    ELSE TextToNum(v.text, 0)

\* e.<column> = :param
SqlEquals(r, column, v) ==
    IF v.kind = "null" THEN FALSE
    ELSE IF column \in TextColumns /\ v.kind = "string"
    THEN CollationEq(TextCell(r, column), v.text)
    ELSE NumCell(r, column) = NumOfValue(v)

\* text LIKE pattern: % any run of letters, _ any one letter, \ escapes.
RECURSIVE Like(_, _)
Like(s, p) ==
    IF p = <<>> THEN s = <<>>
    ELSE IF Head(p) = "%" THEN Like(s, Tail(p)) \/ (s # <<>> /\ Like(Tail(s), p))
    ELSE IF s = <<>> THEN FALSE
    ELSE IF Head(p) = "_" THEN Like(Tail(s), Tail(p))
    ELSE IF Head(p) = "\\" /\ Len(p) >= 2
    THEN LowerLetter(Head(s)) = LowerLetter(p[2]) /\ Like(Tail(s), Tail(Tail(p)))
    ELSE LowerLetter(Head(s)) = LowerLetter(Head(p)) /\ Like(Tail(s), Tail(p))

Matches(r, plan) ==
    /\ \A i \in 1..Len(plan.filters) :
        SqlEquals(r, plan.filters[i].column, plan.filters[i].value)
    /\ plan.search # None =>
        \E i \in 1..Len(plan.search[1].columns) :
            Like(TextCell(r, plan.search[1].columns[i]), plan.search[1].pattern)

Matching(t, plan) == {r \in t : Matches(r, plan)}

\* The statement fails when it names a column the table does not have.
PlanError(plan) ==
    LET bad == {i \in 1..Len(plan.filters) : plan.filters[i].column \notin Columns}
    IN  IF bad = {} THEN None ELSE Some(UnknownColumnError(plan.filters[Min(bad)].column))

\* Order of the collation's letters.
CollationOrder ==
    <<"'", " ", "@x.com", "@y.com", "a", "alice", "b", "bob", "for key ", "x", "y", "z">>
Rank(c) == Min({i \in 1..Len(CollationOrder) : CollationOrder[i] = LowerLetter(c)})

RECURSIVE TextLess(_, _)
TextLess(a, b) ==
    IF b = <<>> THEN FALSE
    ELSE IF a = <<>> THEN TRUE
    ELSE IF Rank(Head(a)) # Rank(Head(b)) THEN Rank(Head(a)) < Rank(Head(b))
    ELSE TextLess(Tail(a), Tail(b))

\* r1 sorts strictly before r2 under ORDER BY e.<column> ASC.
Before(r1, r2, column) ==
    IF column \in TextColumns THEN TextLess(TextCell(r1, column), TextCell(r2, column))
    ELSE NumCell(r1, column) < NumCell(r2, column)

Orderings(S) ==
    {s \in [1..Cardinality(S) -> S] : \A i, j \in 1..Cardinality(S) : i # j => s[i] # s[j]}

\* The orders ORDER BY allows; rows with equal keys come in any order.
SortedOrders(S, orderBy) ==
    {s \in Orderings(S) : \A i, j \in 1..Len(s) : i < j =>
        IF orderBy.direction = "DESC" THEN ~Before(s[i], s[j], orderBy.column)
        ELSE ~Before(s[j], s[i], orderBy.column)}

RECURSIVE Drop(_, _)
Drop(s, n) == IF n <= 0 \/ s = <<>> THEN s ELSE Drop(Tail(s), n - 1)

\* The row limit left out.
Take_All(s, n) == s

RECURSIVE Take(_, _)
Take(s, n) == IF n <= 0 \/ s = <<>> THEN <<>> ELSE <<Head(s)>> \o Take(Tail(s), n - 1)

\* SELECT ... WHERE ... ORDER BY ... LIMIT take OFFSET skip: its possible results.
SelectResults(t, plan) ==
    {Take(Drop(s, plan.skip), plan.take) : s \in SortedOrders(Matching(t, plan), plan.orderBy)}

\* A COUNT taken over the page instead of over the whole match.
Count_OfPage(t, plan) ==
    Min({plan.take, Max({0, Cardinality(Matching(t, plan)) - plan.skip})})

\* SELECT COUNT(...) WHERE ...
Count(t, plan) == Cardinality(Matching(t, plan))

----------------------------------------------------------------------------
(* Actions *)

Init ==
    /\ policy = "user"
    /\ table = {}
    /\ nextId = 1
    /\ pendingUpdate = None
    /\ pendingList = None
    /\ response = None

CallFindOne ==
    /\ response = None
    /\ \E id \in IdArgs : \E fault \in Faults(id) :
        response' = Some(PointResponse("findOne", Some(id), None, None,
                                       findOne(table, id, fault), table, fault))
    /\ UNCHANGED <<policy, table, nextId, pendingUpdate, pendingList>>

\* A failed INSERT of a duplicate still consumes its AUTO_INCREMENT value.
CallCreate ==
    /\ response = None
    /\ nextId <= MaxId
    /\ \E fields \in CreateFields, fault \in BOOLEAN :
        LET saved == Insert(table, nextId, fields, fault)
        IN  /\ table' = saved.table
            /\ nextId' = IF fault THEN nextId ELSE nextId + 1
            /\ response' = Some(PointResponse("create", None, Some(fields), None,
                                              create(saved), table, fault))
    /\ UNCHANGED <<policy, pendingUpdate, pendingList>>

\* update() up to its first await: the id check and the UPDATE statement.
UpdateStep(partials) ==
    /\ response = None
    /\ pendingUpdate = None
    /\ \E id \in IdArgs, partial \in partials : \E fault \in Faults(id) :
        IF isNaN(id)
        THEN /\ response' = Some(PointResponse("update", Some(id), None, Some(partial),
                                    Throw(BadRequestException(InvalidIdFormat)),
                                    table, fault))
             /\ UNCHANGED <<table, pendingUpdate>>
        ELSE LET written == Update(table, id.n, partial, fault)
             IN  IF written.error # None
                 THEN /\ response' = Some(PointResponse("update", Some(id), None,
                                             Some(partial),
                                             Throw(WriteCatch(written.error[1])),
                                             table, fault))
                      /\ UNCHANGED <<table, pendingUpdate>>
                 ELSE /\ table' = written.table
                      /\ pendingUpdate' = Some([id |-> id, partial |-> partial,
                                                affected |-> written.affected,
                                                before |-> table])
                      /\ UNCHANGED response
    /\ UNCHANGED <<policy, nextId, pendingList>>

CallUpdate == UpdateStep(Partials)

\* update() resumes: the read-back through findOne, inside the same try block.
UpdateReadBack ==
    /\ response = None
    /\ pendingUpdate # None
    /\ \E fault \in BOOLEAN :
        LET u == pendingUpdate[1]
        IN  response' = Some(PointResponse("update", Some(u.id), None, Some(u.partial),
                                 updateReadBack(findOne(table, u.id, fault)),
                                 u.before, fault))
    /\ pendingUpdate' = None
    /\ UNCHANGED <<policy, table, nextId, pendingList>>

CallDelete ==
    /\ response = None
    /\ \E id \in IdArgs : \E fault \in Faults(id) :
        IF isNaN(id)
        THEN /\ response' = Some(PointResponse("delete", Some(id), None, None,
                                    Throw(BadRequestException(InvalidIdFormat)),
                                    table, fault))
             /\ UNCHANGED table
        ELSE LET result == Delete(table, id.n, fault)
             IN  /\ table' = result.table
                 /\ response' = Some(PointResponse("delete", Some(id), None, None,
                                        delete(id, result), table, fault))
    /\ UNCHANGED <<policy, nextId, pendingUpdate, pendingList>>

\* The response leaves the server.
Deliver ==
    /\ response # None
    /\ response' = None
    /\ UNCHANGED <<policy, table, nextId, pendingUpdate, pendingList>>

----------------------------------------------------------------------------
(* findAll(): list requests as they reach the repository (page, limit >= 1) *)

FiltersNameA == <<"{", "\"", "name", "\"", ":", "\"", "a", "\"", "}">>
FiltersUnknownColumn == <<"{", "\"", "role", "\"", ":", "\"", "a", "\"", "}">>
FiltersNull == <<"null">>
\* Payloads JSON.parse rejects: cut short, and not JSON at all.
FiltersTruncated == <<"{", "\"", "name", "\"", ":">>
FiltersGarbage == <<"name", "=", "a">>
MalformedFilters == {FiltersTruncated, FiltersGarbage}

SortBys == {None, Some(<<>>), Some(<<"name">>), Some(<<"password">>)}
Orders == {None, Some(<<"D", "E", "S", "C">>), Some(<<"d", "e", "s", "c">>),
           Some(<<"a", "s", "c">>)}
Searches == {None, Some(<<"A">>)}
FilterPayloads ==
    {None, Some(FiltersNameA), Some(FiltersUnknownColumn), Some(FiltersNull)}
        \cup {Some(f) : f \in MalformedFilters}

ListRequests ==
    [page : 1..MaxPage, limit : 1..MaxLimit, sortBy : SortBys, order : Orders,
     search : Searches, filters : FilterPayloads]

\* Requests of a caller that lists while others create and delete.
PlainRequests ==
    [page : 1..MaxPage, limit : 1..MaxLimit, sortBy : {None}, order : {None},
     search : {None}, filters : {None, Some(FiltersNameA)}]

ListResponse(req, plan, exception, page, atSelect, atCount, fault) ==
    [op |-> "findAll", request |-> req, plan |-> plan,
     exception |-> exception, page |-> page,
     http |-> IF exception # None THEN Some(Catch(exception[1])) ELSE None,
     atSelect |-> atSelect, atCount |-> atCount, fault |-> fault]

\* findAll(req) up to the first statement of getManyAndCount(): the SELECT.
\* raw is the HTTP request req was made from, None for a direct call.
SelectStep(req, raw) ==
    LET built == BuildQuery(policy, req)
    IN  IF built.exception # None
        THEN /\ response' = Some(ListResponse(req, None,
                                    Some(findAllCatch(built.exception[1])),
                                    None, table, table, FALSE))
             /\ UNCHANGED pendingList
        ELSE \E fault \in BOOLEAN :
            LET plan == built.plan[1]
                error == IF fault THEN Some(FaultError) ELSE PlanError(plan)
            IN  IF error # None
                THEN /\ response' = Some(ListResponse(req, built.plan,
                                            Some(findAllCatch(error[1])),
                                            None, table, table, fault))
                     /\ UNCHANGED pendingList
                ELSE /\ \E data \in SelectResults(table, plan) :
                          pendingList' = Some([request |-> req, plan |-> plan,
                                               data |-> data, atSelect |-> table,
                                               raw |-> raw])
                     /\ UNCHANGED response

FindAllSelect(requests) ==
    /\ response = None
    /\ pendingList = None
    /\ \E req \in requests : SelectStep(req, None)
    /\ UNCHANGED <<policy, table, nextId, pendingUpdate>>

\* getManyAndCount() resumes with its second statement, the COUNT; findAll()
\* returns { data, total, page, limit }.
FindAllCount ==
    /\ response = None
    /\ pendingList # None
    /\ \E fault \in BOOLEAN :
        LET l == pendingList[1]
        IN  response' = Some(
                IF fault
                THEN ListResponse(l.request, Some(l.plan), Some(findAllCatch(FaultError)),
                                  None, l.atSelect, table, fault)
                ELSE ListResponse(l.request, Some(l.plan), None,
                                  Some([data |-> l.data, total |-> Count(table, l.plan),
                                        page |-> l.request.page,
                                        limit |-> l.request.limit]),
                                  l.atSelect, table, fault))
    /\ pendingList' = None
    /\ UNCHANGED <<policy, table, nextId, pendingUpdate>>

CallFindAll == FindAllSelect(ListRequests)
CallFindAllPlain == FindAllSelect(PlainRequests)

Next ==
    \/ CallFindOne
    \/ CallCreate
    \/ CallUpdate
    \/ UpdateReadBack
    \/ CallDelete
    \/ Deliver

Spec == Init /\ [][Next]_vars

----------------------------------------------------------------------------
(* Listing on a store nobody writes to: any table the point operations can  *)
(* leave behind, under either Column Policy.                                *)

AllRows == {NewRow(id, fields) : id \in 1..MaxId, fields \in CreateFields}

ValidTables ==
    {t \in SUBSET AllRows :
        \A r1, r2 \in t : r1 # r2 => r1.id # r2.id /\ ~CollationEq(r1.email, r2.email)}

InitList ==
    /\ policy \in Policies
    /\ table \in ValidTables
    /\ nextId = MaxId + 1
    /\ pendingUpdate = None
    /\ pendingList = None
    /\ response = None

NextList ==
    \/ CallFindAll
    \/ FindAllCount
    \/ Deliver

SpecList == InitList /\ [][NextList]_vars

----------------------------------------------------------------------------
(* Updates whose body carries an id: PUT /users/:id hands the body to       *)
(* update() as it came.                                                     *)

\* Bodies that name an id the table has handed out before.
IdPartials ==
    {[name |-> None, email |-> None, id |-> Some(k)] : k \in 1..(nextId - 1)}

CallUpdateWithBody == UpdateStep(Partials \cup IdPartials)

NextRekey ==
    \/ CallCreate
    \/ CallUpdateWithBody
    \/ UpdateReadBack
    \/ CallDelete
    \/ Deliver

SpecRekey == Init /\ [][NextRekey]_vars

----------------------------------------------------------------------------
(* Listing while other callers create and delete rows *)

NextRace ==
    \/ CallFindAllPlain
    \/ FindAllCount
    \/ CallCreate
    \/ CallDelete
    \/ Deliver

SpecRace == Init /\ [][NextRace]_vars

----------------------------------------------------------------------------
(* Searching and filtering a store nobody writes to *)

SearchNames == { <<"Alice">>, <<"Bob">> }
SearchEmails == { <<"bob", "@x.com">>, <<"alice", "@y.com">> }

SearchTables ==
    {t \in SUBSET {NewRow(id, fields) :
                      id \in 1..MaxId, fields \in [name : SearchNames, email : SearchEmails]} :
        \A r1, r2 \in t : r1 # r2 => r1.id # r2.id /\ ~CollationEq(r1.email, r2.email)}

\* {"name":"Bob","email":"bob@x.com"}
FiltersNameAndEmail ==
    <<"{", "\"", "name", "\"", ":", "\"", "Bob", "\"", ",",
      "\"", "email", "\"", ":", "\"", "bob", "@x.com", "\"", "}">>
FiltersEmptyObject == <<"{", "}">>

SearchTexts == {None, Some(<<"bob">>), Some(<<"_">>)}

SearchRequests ==
    [page : 1..MaxPage, limit : 1..MaxLimit, sortBy : {None}, order : {None},
     search : SearchTexts,
     filters : {None, Some(<<>>), Some(FiltersEmptyObject), Some(FiltersNameAndEmail),
                Some(FiltersUnknownColumn)}]

InitSearch ==
    /\ policy \in Policies
    /\ table \in SearchTables
    /\ nextId = MaxId + 1
    /\ pendingUpdate = None
    /\ pendingList = None
    /\ response = None

CallFindAllSearch == FindAllSelect(SearchRequests)

NextSearch ==
    \/ CallFindAllSearch
    \/ FindAllCount
    \/ Deliver

SpecSearch == InitSearch /\ [][NextSearch]_vars

----------------------------------------------------------------------------
(* Sorting a store nobody writes to, by a text column; names may differ in *)
(* letter case only.                                                        *)

SortNames == { <<"a">>, <<"A">>, <<"b">> }

SortTables ==
    {t \in UNION {{{NewRow(id, f[id]) : id \in I} :
                      f \in [I -> [name : SortNames, email : Emails]]} :
                  I \in SUBSET (1..MaxId)} :
        \A r1, r2 \in t : r1 # r2 => ~CollationEq(r1.email, r2.email)}

SortRequests ==
    [page : 1..MaxPage, limit : 1..MaxLimit, sortBy : {Some(<<"name">>), Some(<<"email">>)},
     order : Orders, search : {None}, filters : {None}]

InitSort ==
    /\ policy \in Policies
    /\ table \in SortTables
    /\ nextId = MaxId + 1
    /\ pendingUpdate = None
    /\ pendingList = None
    /\ response = None

CallFindAllSorted == FindAllSelect(SortRequests)

NextSort ==
    \/ CallFindAllSorted
    \/ FindAllCount
    \/ Deliver

SpecSort == InitSort /\ [][NextSort]_vars

----------------------------------------------------------------------------
(* GET /users: the query string through the ValidationPipe, then findAll() *)

DefaultPage == 1
DefaultLimit == 10

IsDigits(s) == s # <<>> /\ \A i \in 1..Len(s) : s[i] \in Digits

\* Number(text) of @Type(() => Number), for texts without a fraction.
ToNumber(s) ==
    IF s = <<>> THEN Num(0)
    ELSE IF IsDigits(s) THEN Num(TextToNum(s, 0))
    ELSE IF Head(s) = "-" /\ IsDigits(Tail(s)) THEN Num(0 - TextToNum(Tail(s), 0))
    ELSE NaN

IsInt(v) == ~v.nan

\* @Min left off the property.
AtLeast_Unchecked(v, min) == TRUE

\* @Min(min)
AtLeast(v, min) == ~v.nan /\ v.n >= min

\* Only the upper-case spellings listed.
IsInOrderValues_UpperOnly(v) == v \in {<<"A", "S", "C">>, <<"D", "E", "S", "C">>}

\* @IsIn(['ASC', 'DESC', 'asc', 'desc'])
IsInOrderValues(v) ==
    v \in {<<"A", "S", "C">>, <<"D", "E", "S", "C">>, <<"a", "s", "c">>, <<"d", "e", "s", "c">>}

NumberErrors(property, v) ==
    (IF IsInt(v) THEN <<>> ELSE <<property \o " must be an integer number">>)
        \o (IF AtLeast(v, 1) THEN <<>> ELSE <<property \o " must not be less than 1">>)

\* plainToInstance() over the class defaults, then validate().
ValidationPipe(raw) ==
    LET page == IF raw.page = None THEN Num(DefaultPage) ELSE ToNumber(raw.page[1])
        limit == IF raw.limit = None THEN Num(DefaultLimit) ELSE ToNumber(raw.limit[1])
        order == IF raw.order = None THEN Some(<<"A", "S", "C">>) ELSE raw.order
    IN  [errors |-> NumberErrors("page", page) \o NumberErrors("limit", limit)
                      \o (IF IsInOrderValues(order[1]) THEN <<>>
                          ELSE <<"order must be one of the following values: ASC, DESC, asc, desc">>),
         dto |-> [page |-> page.n, limit |-> limit.n, sortBy |-> raw.sortBy,
                  order |-> order, search |-> raw.search, filters |-> raw.filters]]

\* The pipe's BadRequestException carries the errors as an array, so its
\* message is the exception's name.
PipeRejection(raw, errors) ==
    [op |-> "validate", raw |-> raw, errors |-> errors,
     exception |-> Some(BadRequestException(<<"Bad Request Exception">>)),
     http |-> Some(Catch(BadRequestException(<<"Bad Request Exception">>)))]

RawNumbers(max) == {None, Some(<<"x">>)} \cup {Some(NumStr(k)) : k \in -1..max}
RawOrders ==
    {None, Some(<<>>), Some(<<"D", "E", "S", "C">>), Some(<<"d", "e", "s", "c">>),
     Some(<<"a", "s", "c">>), Some(<<"D", "e", "s", "c">>), Some(<<"A", "s", "c">>)}

RawRequests ==
    [page : RawNumbers(MaxPage), limit : RawNumbers(MaxLimit), sortBy : {None},
     order : RawOrders, search : {None}, filters : {None}]

HttpFindAll ==
    /\ response = None
    /\ pendingList = None
    /\ \E raw \in RawRequests :
        LET checked == ValidationPipe(raw)
        IN  IF checked.errors # <<>>
            THEN /\ response' = Some(PipeRejection(raw, checked.errors))
                 /\ UNCHANGED pendingList
            ELSE SelectStep(checked.dto, Some(raw))
    /\ UNCHANGED <<policy, table, nextId, pendingUpdate>>

NextPipe ==
    \/ HttpFindAll
    \/ FindAllCount
    \/ Deliver

SpecPipe == InitList /\ [][NextPipe]_vars

----------------------------------------------------------------------------
(* Properties *)

Done(op) == response # None /\ response[1].op = op
Succeeded == response[1].exception = None
Failed(type, status) ==
    /\ response[1].exception # None
    /\ response[1].exception[1].type = type
    /\ response[1].http[1].statusCode = status

SortAllowed(req) == Truthy(req.sortBy) /\ Includes(getSortableColumns(policy), req.sortBy[1])

\* data is in primary-key order, in the direction asked for.
InIdOrder(data, direction) ==
    \A i, j \in 1..Len(data) : i < j =>
        IF direction = "DESC" THEN data[i].id > data[j].id ELSE data[i].id < data[j].id

\* Filters payloads that decode to a mapping over columns of the table.
SoundFilters ==
    {None, Some(<<>>), Some(FiltersEmptyObject), Some(FiltersNameA),
     Some(FiltersNameAndEmail)}

\* C1: the ORDER BY column of a list request is sortBy when sortBy is in
\* sortableColumns and the primary key otherwise; a disallowed sortBy raises no
\* error, and the rows then come in primary-key order.
C1_SortColumnWhitelisted ==
    Done("findAll") =>
        LET r == response[1]
        IN  /\ r.plan # None =>
                r.plan[1].orderBy.column =
                    IF SortAllowed(r.request) THEN r.request.sortBy[1] ELSE <<"id">>
            /\ (~SortAllowed(r.request) /\ ~r.fault /\ r.request.filters \in SoundFilters) =>
                /\ Succeeded
                /\ InIdOrder(r.page[1].data, Direction(r.request.order))

\* A list sorted by a disallowed column came back in id order although the
\* names of its rows are in the opposite order.
C1_Witness ==
    /\ Done("findAll")
    /\ policy = "abstract"
    /\ response[1].request.sortBy = Some(<<"name">>)
    /\ Succeeded
    /\ Len(response[1].page[1].data) = 2
    /\ response[1].page[1].data[1].id < response[1].page[1].data[2].id
    /\ TextLess(response[1].page[1].data[2].name, response[1].page[1].data[1].name)

\* C2: a list request whose filters payload is not JSON fails with 400 Bad
\* Request (InvalidArgument).
C2_MalformedFiltersIsBadRequest ==
    (Done("findAll") /\ response[1].request.filters \in {Some(f) : f \in MalformedFilters})
        => Failed("BadRequestException", BAD_REQUEST)

\* C3: update() of a well-formed id (a positive integer) that has no row fails
\* with 404 Not Found.
C3_UpdateMissingIsNotFound ==
    (/\ Done("update")
     /\ response[1].id[1] # NaN
     /\ response[1].id[1].n >= 1
     /\ ~response[1].fault
     /\ RowsWithId(response[1].before, response[1].id[1].n) = {}
     /\ RowsWithId(table, response[1].id[1].n) = {})
        => Failed("NotFoundException", NOT_FOUND)

\* C4: delete() fails with NotFound exactly when its DELETE affected no row;
\* otherwise it succeeds and the row is gone, so that a second delete of the
\* same id finds no row and fails with NotFound.
C4_DeleteNotFoundIffNoRow ==
    (Done("delete") /\ response[1].id[1] # NaN /\ ~response[1].fault) =>
        LET r == response[1]
            hit == RowsWithId(r.before, r.id[1].n)
        IN  /\ table = r.before \ hit
            /\ RowsWithId(table, r.id[1].n) = {}
            /\ IF hit = {} THEN Failed("NotFoundException", NOT_FOUND) ELSE Succeeded
            /\ delete(r.id[1], Delete(table, r.id[1].n, FALSE))
                   = Throw(NotFoundException(EntityNotFound(r.id[1].n)))

\* The row with id 1 was inserted and deleted, and another delete of 1 failed.
C4_Witness ==
    /\ Done("delete")
    /\ response[1].id = Some(Num(1))
    /\ nextId > 1
    /\ response[1].before = table
    /\ Failed("NotFoundException", NOT_FOUND)

\* C5: findOne() returns the row with that primary key when there is one and
\* fails with 404 Not Found when there is none; it never succeeds with nothing.
C5_FindOneRowOrNotFound ==
    (Done("findOne") /\ response[1].id[1] # NaN /\ ~response[1].fault) =>
        LET r == response[1]
            hit == RowsWithId(table, r.id[1].n)
        IN  IF hit = {}
            THEN Failed("NotFoundException", NOT_FOUND) /\ r.entity = None
            ELSE Succeeded /\ r.entity # None /\ r.entity[1] \in hit

C5_Witness ==
    /\ Done("findOne")
    /\ response[1].id = Some(Num(2))
    /\ table # {}
    /\ Failed("NotFoundException", NOT_FOUND)

PointOps == {"findOne", "update", "delete"}

\* C6 as stated: an id that is NaN, zero or negative fails with 400.
C6_NonPositiveIdIsBadRequest ==
    (/\ response # None
     /\ response[1].op \in PointOps
     /\ (response[1].id[1] = NaN \/ response[1].id[1].n <= 0))
        => Failed("BadRequestException", BAD_REQUEST)

\* C6, amended: an id that is NaN fails with 400 in findOne, update and delete,
\* before any statement is issued and whatever the table holds.
C6_NaNIdIsBadRequest ==
    (/\ response # None
     /\ response[1].op \in PointOps
     /\ response[1].id[1] = NaN)
        => /\ Failed("BadRequestException", BAD_REQUEST)
           /\ response[1].exception[1].message = InvalidIdFormat
           /\ table = response[1].before

\* update(NaN, { email }) with an email another row holds: 400, not 409.
C6_Witness ==
    /\ Done("update")
    /\ response[1].id[1] = NaN
    /\ response[1].partial[1].email # None
    /\ EmailTaken(table, response[1].partial[1].email[1], 0)
    /\ Failed("BadRequestException", BAD_REQUEST)

\* C7: create() with a value a row already holds in the unique column fails
\* with 409 Conflict, the message names the violated key, and the table is as
\* it was.
C7_DuplicateCreateIsConflict ==
    (/\ Done("create")
     /\ ~response[1].fault
     /\ \E r \in response[1].before : r.email = response[1].fields[1].email)
        => /\ Failed("ConflictException", CONFLICT)
           /\ IsSuffix(UniqueKeyName, response[1].http[1].message)
           /\ table = response[1].before

\* The duplicate value itself contains the text the message is parsed by.
C7_Witness ==
    /\ Done("create")
    /\ response[1].fields[1].email = <<"for key ", "'", "z">>
    /\ Failed("ConflictException", CONFLICT)

\* C8: create() of fields that violate no constraint returns an entity with an
\* id no row had, and findOne of that id then returns those fields.
C8_CreateThenFindOne ==
    (/\ Done("create")
     /\ ~response[1].fault
     /\ ~EmailTaken(response[1].before, response[1].fields[1].email, 0))
        => LET r == response[1]
               read == findOne(table, Num(r.entity[1].id), FALSE)
           IN  /\ Succeeded
               /\ r.entity # None
               /\ \A old \in r.before : old.id < r.entity[1].id
               /\ r.entity[1].name = r.fields[1].name
               /\ r.entity[1].email = r.fields[1].email
               /\ read.exception = None
               /\ read.entity[1].id = r.entity[1].id
               /\ read.entity[1].name = r.fields[1].name
               /\ read.entity[1].email = r.fields[1].email

C8_Witness ==
    /\ Done("create")
    /\ Succeeded
    /\ response[1].before # {}
    /\ response[1].entity[1].id = MaxId

Positions(s, first, last) ==
    [i \in 1..(IF Len(s) < first THEN 0
               ELSE (IF Len(s) < last THEN Len(s) ELSE last) - first + 1)
        |-> s[first + i - 1]]

\* C10: on an unchanging store a list returns the rows at positions
\* (page-1)*limit+1 .. page*limit of the sorted sequence of matching rows,
\* echoes page and limit, and beyond the last row returns an empty page with
\* the right total, as a success.
C10_PageOfSortedMatches ==
    (Done("findAll") /\ ~response[1].fault /\ response[1].request.filters \in SoundFilters)
        => LET r == response[1]
               found == Matching(table, r.plan[1])
           IN  /\ Succeeded
               /\ r.page[1].page = r.request.page
               /\ r.page[1].limit = r.request.limit
               /\ r.page[1].total = Cardinality(found)
               /\ \E s \in SortedOrders(found, r.plan[1].orderBy) :
                      r.page[1].data =
                          Positions(s, (r.request.page - 1) * r.request.limit + 1,
                                    r.request.page * r.request.limit)
               /\ (r.request.page - 1) * r.request.limit >= Cardinality(found)
                      => r.page[1].data = <<>>

\* A page beyond the last matching row: empty, with the total, a success.
C10_Witness ==
    /\ Done("findAll")
    /\ Succeeded
    /\ response[1].request.page = 2
    /\ response[1].page[1].data = <<>>
    /\ response[1].page[1].total = 2

----------------------------------------------------------------------------
(* Total, search, direction *)

\* text contains sub when case is ignored.
ContainsIgnoringCase(text, sub) ==
    \E i \in 0..Len(text) : OccursAt(Lower(text), Lower(sub), i)

\* What a sound filters payload asks of each column.
FilterValues(filters) ==
    IF filters = Some(FiltersNameA) THEN [name |-> Some(<<"a">>), email |-> None]
    ELSE IF filters = Some(FiltersNameAndEmail)
    THEN [name |-> Some(<<"Bob">>), email |-> Some(<<"bob", "@x.com">>)]
    ELSE [name |-> None, email |-> None]

\* The row has the value of every column the filters name.
FiltersHold(r, filters) ==
    \A c \in {"name", "email"} :
        FilterValues(filters)[c] # None => CollationEq(r[c], FilterValues(filters)[c][1])

\* The search text, when one is given and the policy has searchable columns,
\* is inside at least one of them.
SearchHolds(r, search) ==
    (Truthy(search) /\ getSearchableColumns(policy) # <<>>) =>
        \E i \in 1..Len(getSearchableColumns(policy)) :
            ContainsIgnoringCase(r[getSearchableColumns(policy)[i][1]], search[1])

\* C11: with the store unchanged during the request, total of a list response
\* is the number of rows that satisfy the filters and the search. The number
\* on the right is taken from the table, the filters and the search alone, so
\* requests that agree on those get the same total whatever their page, limit,
\* sortBy and order.
C11_TotalIsMatchCount ==
    (Done("findAll") /\ Succeeded /\ response[1].request.filters \in SoundFilters) =>
        LET req == response[1].request
        IN  response[1].page[1].total =
                Cardinality({r \in table : /\ FiltersHold(r, req.filters)
                                          /\ SearchHolds(r, req.search)})

\* A second page that is empty although one row of two matches the filters
\* and the search.
C11_Witness ==
    /\ Done("findAll") /\ Succeeded
    /\ response[1].request.filters = Some(FiltersNameA)
    /\ response[1].request.search # None
    /\ response[1].request.page = 2
    /\ response[1].request.sortBy = Some(<<"name">>)
    /\ Cardinality(table) = 2
    /\ response[1].page[1].total = 1
    /\ response[1].page[1].data = <<>>

\* C12: with a search text and searchable columns, the rows a list matches
\* are exactly the rows that have the search text, case ignored, inside at
\* least one searchable column and that satisfy the filters.
C12_SearchIsSubstringMatch ==
    (/\ Done("findAll") /\ Succeeded
     /\ response[1].request.filters \in SoundFilters
     /\ Truthy(response[1].request.search)
     /\ policy = "user") =>
        LET req == response[1].request
            having == {r \in table :
                          /\ FiltersHold(r, req.filters)
                          /\ \/ ContainsIgnoringCase(r.name, req.search[1])
                             \/ ContainsIgnoringCase(r.email, req.search[1])}
        IN  /\ response[1].page[1].total = Cardinality(having)
            /\ \A i \in 1..Len(response[1].page[1].data) :
                    response[1].page[1].data[i] \in having

\* C13: under a policy without searchable columns, a list request that
\* carries a search text succeeds whenever the same request without it does,
\* and returns the data and total of the request without the search text.
C13_SearchIgnoredWithoutColumns ==
    (Done("findAll") /\ policy = "abstract" /\ response[1].request.search # None) =>
        LET bare == [response[1].request EXCEPT !.search = None]
            built == BuildQuery(policy, bare)
        IN  /\ (~response[1].fault /\ bare.filters \in SoundFilters) => Succeeded
            /\ Succeeded =>
                /\ response[1].page[1].data \in SelectResults(table, built.plan[1])
                /\ response[1].page[1].total = Count(table, built.plan[1])

\* Searched for "bob" under the default policy, and given a row that has
\* "bob" nowhere.
C13_Witness ==
    /\ Done("findAll") /\ Succeeded
    /\ policy = "abstract"
    /\ response[1].request.search = Some(<<"bob">>)
    /\ response[1].page[1].total = 2
    /\ \E i \in 1..Len(response[1].page[1].data) :
        /\ response[1].page[1].data[i].name = <<"Alice">>
        /\ response[1].page[1].data[i].email = <<"alice", "@y.com">>

\* The request with the other direction.
Opposite(req) ==
    IF req.order \in {Some(<<"D", "E", "S", "C">>), Some(<<"d", "e", "s", "c">>)}
    THEN [req EXCEPT !.order = Some(<<"a", "s", "c">>)]
    ELSE [req EXCEPT !.order = Some(<<"D", "E", "S", "C">>)]

Reverse(s) == [i \in 1..Len(s) |-> s[Len(s) + 1 - i]]

\* A first page that holds every matching row, sorted by an allowed sortBy.
WholeSortedMatch ==
    /\ Done("findAll") /\ Succeeded
    /\ SortAllowed(response[1].request)
    /\ response[1].request.page = 1
    /\ response[1].request.limit >= response[1].page[1].total

\* The only result of the request with the other direction is data reversed.
OppositeIsReverse ==
    SelectResults(table, BuildQuery(policy, Opposite(response[1].request)).plan[1])
        = {Reverse(response[1].page[1].data)}

\* C14 as stated: when the rows have pairwise distinct values in the sortable
\* column sorted by and limit is at least the number of matching rows, the
\* DESC result is exactly the reverse of the ASC result.
C14_DescReversesAsc ==
    (/\ WholeSortedMatch
     /\ \A r1, r2 \in table : r1 # r2 =>
            TextCell(r1, response[1].request.sortBy[1])
                # TextCell(r2, response[1].request.sortBy[1])) =>
        OppositeIsReverse

\* C14: when no two rows have values in the sortable column sorted by that
\* the column's collation holds equal (values that differ in letter case
\* only are equal to it) and limit is at least the number of matching rows,
\* the DESC result is exactly the reverse of the ASC result.
C14_DescReversesAscUnderCollation ==
    (/\ WholeSortedMatch
     /\ \A r1, r2 \in table : r1 # r2 =>
            ~CollationEq(TextCell(r1, response[1].request.sortBy[1]),
                         TextCell(r2, response[1].request.sortBy[1]))) =>
        OppositeIsReverse

\* Two rows listed by name, b before a.
C14_Witness ==
    /\ WholeSortedMatch
    /\ response[1].request.sortBy = Some(<<"name">>)
    /\ response[1].request.order = Some(<<"d", "e", "s", "c">>)
    /\ Len(response[1].page[1].data) = 2
    /\ response[1].page[1].data[1].name = <<"b">>
    /\ response[1].page[1].data[2].name = <<"a">>

OrderRejected ==
    /\ Done("validate")
    /\ \E i \in 1..Len(response[1].errors) :
        response[1].errors[i] = "order must be one of the following values: ASC, DESC, asc, desc"

\* The SELECT of a request that came through the pipe has run.
Executed == pendingList # None /\ pendingList[1].raw # None

IsCasingOf(v, word) == Len(v) = Len(word) /\ \A i \in 1..Len(v) : v[i] \in word[i]

Asc == << {"a", "A"}, {"s", "S"}, {"c", "C"} >>
Desc == << {"d", "D"}, {"e", "E"}, {"s", "S"}, {"c", "C"} >>

\* C15 as stated: every casing of "asc" and of "desc" passes request
\* validation and resolves to ASC and DESC; an absent order resolves to ASC.
C15_EveryCasingAccepted ==
    /\ OrderRejected =>
        ~(IsCasingOf(response[1].raw.order[1], Asc) \/ IsCasingOf(response[1].raw.order[1], Desc))
    /\ Executed =>
        pendingList[1].plan.orderBy.direction =
            IF /\ pendingList[1].raw[1].order # None
               /\ IsCasingOf(pendingList[1].raw[1].order[1], Desc)
            THEN "DESC" ELSE "ASC"

\* C15: the four spellings ASC, DESC, asc and desc pass request validation
\* and resolve to the direction ASC or DESC; an absent order resolves to ASC;
\* no other order, mixed case included, reaches the query.
C15_FourSpellingsAccepted ==
    /\ OrderRejected =>
        /\ response[1].raw.order # None
        /\ response[1].raw.order[1] \notin
               {<<"A", "S", "C">>, <<"D", "E", "S", "C">>, <<"a", "s", "c">>, <<"d", "e", "s", "c">>}
    /\ Executed =>
        LET order == pendingList[1].raw[1].order
        IN  \/ /\ order \in {None, Some(<<"A", "S", "C">>), Some(<<"a", "s", "c">>)}
               /\ pendingList[1].plan.orderBy.direction = "ASC"
            \/ /\ order \in {Some(<<"D", "E", "S", "C">>), Some(<<"d", "e", "s", "c">>)}
               /\ pendingList[1].plan.orderBy.direction = "DESC"

\* order=desc went through the pipe and the SELECT ran with DESC.
C15_Witness ==
    /\ Executed
    /\ pendingList[1].raw[1].order = Some(<<"d", "e", "s", "c">>)
    /\ pendingList[1].plan.orderBy.direction = "DESC"
    /\ Len(pendingList[1].data) = 2
    /\ pendingList[1].data[1].id > pendingList[1].data[2].id

\* C16: a list request with page or limit below 1 is answered 400 and no
\* query runs for it; the page and limit a query runs with are the ones the
\* request gave (or the defaults), never values moved up to 1, so the offset
\* is never negative and the row limit never below 1.
C16_BelowOneRejected ==
    /\ Done("validate") => response[1].http[1].statusCode = 400
    /\ Executed =>
        LET raw == pendingList[1].raw[1]
            req == pendingList[1].request
        IN  /\ req.page >= 1 /\ req.limit >= 1
            /\ raw.page # None => raw.page[1] = NumStr(req.page)
            /\ raw.limit # None => raw.limit[1] = NumStr(req.limit)
            /\ pendingList[1].plan.skip >= 0 /\ pendingList[1].plan.take >= 1
    /\ Done("findAll") =>
        /\ response[1].request.page >= 1 /\ response[1].request.limit >= 1
        /\ response[1].plan # None =>
            response[1].plan[1].skip >= 0 /\ response[1].plan[1].take >= 1

\* page=0 with a good limit and order: rejected for the page alone.
C16_Witness ==
    /\ Done("validate")
    /\ response[1].raw.page = Some(<<"0">>)
    /\ response[1].raw.limit = Some(<<"1">>)
    /\ response[1].errors = <<"page must not be less than 1">>
    /\ response[1].http[1].statusCode = 400

\* A storage statement of a call with a well-formed id (or none) has failed
\* for a reason that is neither a duplicate nor a missing row.
StorageFailed ==
    /\ response # None
    /\ response[1].fault
    /\ response[1].id # None => response[1].id[1].n >= 1

\* C17: in every operation, a failure of a storage statement that is neither
\* a unique-constraint violation nor a missing row is answered 500 Internal
\* Server Error, never 400, 404 or 409.
C17_StorageFailureIsInternal ==
    StorageFailed =>
        /\ response[1].http # None
        /\ response[1].http[1].statusCode = 500

\* C18: the response to a failed storage statement that is answered 500 does
\* not carry the engine's message.
C18_InternalMessageIsOpaque ==
    (/\ StorageFailed
     /\ response[1].http # None
     /\ response[1].http[1].statusCode = 500) =>
        \A i \in 1..Len(response[1].http[1].message) :
            ~OccursAt(response[1].http[1].message, FaultMessage, i)

\* The columns the Column Policy lists, and the primary key.
Whitelist ==
    {getSearchableColumns(policy)[i] : i \in 1..Len(getSearchableColumns(policy))}
        \cup {getSortableColumns(policy)[i] : i \in 1..Len(getSortableColumns(policy))}
        \cup {<<"id">>}

\* The strings of the request that came from the caller: filter keys and
\* values, sortBy, order, search.
CallerStrings(req, plan) ==
    {plan.filters[i].column : i \in 1..Len(plan.filters)}
        \cup {plan.filters[i].value.text : i \in 1..Len(plan.filters)}
        \cup {o[1] : o \in {req.sortBy, req.order, req.search} \ {None}}

\* C19: in every query a list builds, every column named in a filter, search
\* or sort clause is in the Column Policy's whitelist or is the primary key,
\* and no string of the caller that is not such a column is part of the
\* query text.
C19_QueryNamesWhitelistedColumnsOnly ==
    (Done("findAll") /\ response[1].plan # None) =>
        LET plan == response[1].plan[1]
        IN  /\ \A i \in 1..Len(plan.filters) : plan.filters[i].column \in Whitelist
            /\ plan.search # None =>
                \A i \in 1..Len(plan.search[1].columns) :
                    plan.search[1].columns[i] \in Whitelist
            /\ plan.orderBy.column \in Whitelist
            /\ \A c \in CallerStrings(response[1].request, plan) \ (Whitelist \cup {<<>>}) :
                    \A i \in 1..Len(QueryText(plan)) : ~OccursAt(QueryText(plan), c, i)

\* The (column, value) pairs a filters payload decodes to.
ExpectedPredicates(filters) ==
    CASE filters = Some(FiltersNameAndEmail) ->
            { << <<"name">>, <<"Bob">> >>, << <<"email">>, <<"bob", "@x.com">> >> }
      [] filters = Some(FiltersNameA) -> { << <<"name">>, <<"a">> >> }
      [] filters = Some(FiltersUnknownColumn) -> { << <<"role">>, <<"a">> >> }
      [] OTHER -> {}

\* C20: a list whose filters decode to a mapping has exactly one equality
\* predicate per key, whether or not the key is a searchable or sortable
\* column, and no predicate when filters is absent or empty; the predicates
\* are AND-ed: without a search, the rows matched are exactly the rows equal
\* (to the column's collation) to the filter value in every filter column.
C20_OnePredicatePerFilterKey ==
    (Done("findAll") /\ response[1].plan # None) =>
        LET req == response[1].request
            predicates == response[1].plan[1].filters
        IN  /\ Len(predicates) = Cardinality(ExpectedPredicates(req.filters))
            /\ {<<predicates[i].column, predicates[i].value.text>> : i \in 1..Len(predicates)}
                    = ExpectedPredicates(req.filters)
            /\ (Succeeded /\ req.search = None) =>
                /\ response[1].page[1].total
                        = Cardinality({r \in table : FiltersHold(r, req.filters)})
                /\ \A i \in 1..Len(response[1].page[1].data) :
                        FiltersHold(response[1].page[1].data[i], req.filters)

\* Under the default policy, which lists neither name nor email: of two rows
\* named Bob, the one with the email asked for.
C20_Witness ==
    /\ Done("findAll") /\ Succeeded
    /\ policy = "abstract"
    /\ response[1].request.filters = Some(FiltersNameAndEmail)
    /\ Cardinality(table) = 2
    /\ \A r \in table : r.name = <<"Bob">>
    /\ response[1].page[1].total = 1
    /\ Len(response[1].page[1].data) = 1
    /\ response[1].page[1].data[1].email = <<"bob", "@x.com">>

----------------------------------------------------------------------------
(* Concurrent callers, frame conditions *)

\* C21: an update whose UPDATE statement changed its row does not end in
\* NotFound or Internal, whatever a concurrent delete of the same id does
\* between the write and the read-back (no storage statement failing).
C21_UpdateSurvivesConcurrentDelete ==
    (/\ Done("update")
     /\ ~response[1].fault
     /\ response[1].id[1] # NaN
     /\ response[1].id[1].n >= 1
     /\ RowsWithId(response[1].before, response[1].id[1].n) # {}
     /\ response[1].exception # None) =>
        /\ response[1].exception[1].type
               \notin {"NotFoundException", "InternalServerErrorException"}
        /\ response[1].http[1].statusCode \notin {404, 500}

\* C22: create is one INSERT that the engine runs atomically, so concurrent
\* creates take effect one after another in some order. A create succeeds
\* only if no row held its email, and then adds exactly its own row; a create
\* whose email a row already holds ends in 409 Conflict with the table as it
\* was (nothing is tried again); no two stored rows ever share an email.
C22_RacingCreatesKeepUnique ==
    /\ \A r1, r2 \in table : r1 # r2 => (r1.email # r2.email /\ r1.id # r2.id)
    /\ (Done("create") /\ ~response[1].fault) =>
        LET held == {r \in response[1].before : r.email = response[1].fields[1].email}
        IN  /\ Succeeded =>
                /\ held = {}
                /\ response[1].entity # None
                /\ response[1].entity[1] \notin response[1].before
                /\ table = response[1].before \cup {response[1].entity[1]}
            /\ held # {} =>
                /\ Failed("ConflictException", CONFLICT)
                /\ table = response[1].before

\* The second of two creates with the same email and different names.
C22_Witness ==
    /\ Done("create")
    /\ Failed("ConflictException", CONFLICT)
    /\ response[1].fields[1] = [name |-> <<"b">>, email |-> <<"x">>]
    /\ table = {NewRow(1, [name |-> <<"a">>, email |-> <<"x">>])}
    /\ nextId = 3

\* C23: every stored row has the primary key it was created with (a row's
\* createdAt is set once, from the id of its INSERT), whatever creates,
\* updates and deletes have run, also when an update's fields carry an id.
C23_PrimaryKeyNeverReassigned ==
    \A r \in table : r.id = r.createdAt

\* A step in which a point operation answers 400 or 404, or in which an
\* update runs its UPDATE for an id no row has, leaves the table as it was.
RejectedStepKeepsTable ==
    /\ (/\ response = None /\ response' # None
        /\ response'[1].op \in PointOps
        /\ response'[1].exception # None
        /\ response'[1].exception[1].type \in {"BadRequestException", "NotFoundException"})
            => table' = table
    /\ (/\ pendingUpdate = None /\ pendingUpdate' # None
        /\ RowsWithId(table, pendingUpdate'[1].id.n) = {})
            => table' = table

\* C24: a point operation that ends in 400 Bad Request or 404 Not Found
\* changes no stored row: a malformed id is answered before any statement,
\* update of an id no row has inserts nothing, delete of an id no row has
\* removes nothing.
C24_RejectedCallsChangeNothing == [][RejectedStepKeepsTable]_vars

\* With a row stored, the UPDATE for another id has run and changed nothing.
C24_Witness ==
    /\ pendingUpdate # None
    /\ pendingUpdate[1].id = Num(2)
    /\ pendingUpdate[1].affected = 0
    /\ table = pendingUpdate[1].before
    /\ \E r \in table : r.id = 1

\* C25: delete is one DELETE that the engine runs atomically, so two
\* concurrent deletes of one id take effect one after the other. A delete
\* succeeds exactly when its statement found the row, and then removes that
\* row and no other; otherwise it ends in 404 Not Found and removes nothing.
\* From every state, of two deletes of the id of a stored row the first
\* succeeds, the second ends in Not Found, and only that row is gone.
C25_TwoDeletesOneSucceeds ==
    /\ (Done("delete") /\ ~response[1].fault /\ response[1].id[1] # NaN) =>
        LET had == RowsWithId(response[1].before, response[1].id[1].n)
        IN  IF had # {}
            THEN /\ Succeeded
                 /\ Cardinality(had) = 1
                 /\ table = response[1].before \ had
            ELSE /\ Failed("NotFoundException", NOT_FOUND)
                 /\ table = response[1].before
    /\ \A r \in table :
        LET first == Delete(table, r.id, FALSE)
            second == Delete(first.table, r.id, FALSE)
        IN  /\ delete(Num(r.id), first) = Return(None)
            /\ delete(Num(r.id), second) = Throw(NotFoundException(EntityNotFound(r.id)))
            /\ second.table = table \ {r}

\* Row 1 was created and deleted, and a second delete of id 1 is answered
\* Not Found.
C25_Witness ==
    /\ Done("delete")
    /\ response[1].id[1] = Num(1)
    /\ Failed("NotFoundException", NOT_FOUND)
    /\ nextId = 2
    /\ table = {}

====
